---- MODULE Spec2Model ----
(***************************************************************************)
(* Model of the mock-service: the rule model, the configuration manager,  *)
(* the path matcher, the response builder, the universal request handler  *)
(* and the start-up sequence of main().                                    *)
(*                                                                         *)
(* The specifications share the variables:                                 *)
(*   Spec        the process: main() loads the configuration once, then    *)
(*               serves requests until a signal arrives;                   *)
(*   SpecConfig  a ConfigManager used the way its tests use it: built,     *)
(*               then LoadConfig / GetConfig called any number of times;   *)
(*   SpecUnit    the stateless components (PathMatcher, ResponseBuilder)   *)
(*               called with inputs drawn from bounded sets;               *)
(*   SpecHandler the handler over a ConfigManager, as the handler tests    *)
(*               build it: loads, GetConfig calls and requests in any      *)
(*               order, starting from a new ConfigManager;                 *)
(*   SpecHistory the process, remembering one earlier request;             *)
(*   SpecLogger  the logger called on its own, and the handler over rules  *)
(*               built in Go;                                              *)
(*   SpecBodies  the response builder over a memory of map objects: the   *)
(*               bodies it returns are references, and its caller may      *)
(*               write to the map it gets;                                 *)
(*   SpecReload  goroutines: HandleRequest executions running concurrently *)
(*               with each other and with one LoadConfig call.             *)
(***************************************************************************)
EXTENDS Integers, Sequences, FiniteSets

VARIABLES
    pc,       \* position of main() / name of the harness
    fs,       \* content of the configuration file last handed to LoadConfig
    cm,       \* ConfigManagerImpl.config
    loadErr,  \* error returned by the last LoadConfig call
    req,      \* <<>> or <<request>>: the request handled last
    events,   \* log entries written while handling req
    sent,     \* what the handler of req handed to c.JSON
    call,     \* <<>> or <<record>>: the last direct call of a component
    seen,     \* <<>> or <<record>>: an earlier request and its response
    store,    \* the slice header held in cm.config.Rules, word by word
    heap,     \* backing arrays of the rule slices; in SpecBodies, the maps
    loader,   \* the goroutine calling LoadConfig
    handlers  \* the goroutines running HandleRequest

\* the memory and the goroutines of SpecReload
conc == <<store, heap, loader, handlers>>

vars == <<pc, fs, cm, loadErr, req, events, sent, call, seen, conc>>

\* one goroutine, one request at a time: nothing runs next to it
NoGoroutines ==
    /\ store = [ptr |-> 0, len |-> 0]
    /\ heap = <<>>
    /\ loader = [pc |-> "none"]
    /\ handlers = <<>>

----------------------------------------------------------------------------
(* Bounds of the model *)

\* longest "rules" array of a configuration document, longest rule list
MaxRules == 2

----------------------------------------------------------------------------
(* Strings are sequences of characters, so that equality, case and prefixes
   are computed and not assumed. *)

PathA       == <<"/", "a">>
PathB       == <<"/", "b">>
PathUpperA  == <<"/", "A">>
PathASlash  == <<"/", "a", "/">>
PathRoot    == <<"/">>
PathEmpty   == <<>>
PathHealth  == <<"/", "h", "e", "a", "l", "t", "h">>

\* request paths and rule paths used by the matcher harness
Paths == {PathA, PathUpperA, PathASlash, PathRoot, PathEmpty}

ToLowerChar(c) == IF c = "A" THEN "a" ELSE IF c = "B" THEN "b" ELSE c
ToLower(s) == [i \in 1..Len(s) |-> ToLowerChar(s[i])]
IsPrefix(s, t) == Len(s) <= Len(t) /\ SubSeq(t, 1, Len(s)) = s

----------------------------------------------------------------------------
(* models.MockRule and models.Config.  A map[string]interface{} is a set of
   <<key, value>> pairs plus the nil flag: Go distinguishes the nil map from
   the empty map. *)

NilMap   == [isNil |-> TRUE,  kv |-> {}]
EmptyMap == [isNil |-> FALSE, kv |-> {}]
SomeMap  == [isNil |-> FALSE, kv |-> {<<"k", "v">>}]

MockRule(path, response, code) ==
    [Path |-> path, Response |-> response, Code |-> code]

\* the zero value of MockRule, what `var r MockRule` holds
ZeroRule == MockRule(PathEmpty, NilMap, 0)

\* the zero value of Config: Rules is the nil slice, of length 0
ZeroConfig == [Rules |-> <<>>]

\* sequences over S of length at most n
RECURSIVE SeqUpTo(_, _)
SeqUpTo(S, n) ==
    IF n = 0 THEN {<<>>}
    ELSE LET shorter == SeqUpTo(S, n - 1)
         IN  shorter \cup {Append(q, x) : q \in {r \in shorter : Len(r) = n - 1}, x \in S}

----------------------------------------------------------------------------
(* PathMatcherImpl *)

\* the nil *MockRule of a failed search; a found rule is its index in rules
NotFound == [rule |-> 0, found |-> FALSE]

\* a comparison that folds letter case
PathEqFold(rulePath, requestPath) == ToLower(rulePath) = ToLower(requestPath)

\* a comparison that takes the rule path as a prefix
PathEqPrefix(rulePath, requestPath) == IsPrefix(rulePath, requestPath)

\* rules[i].Path == requestPath
PathEq(rulePath, requestPath) == rulePath = requestPath

RECURSIVE FindMatchFrom(_, _, _)
FindMatchFrom(i, requestPath, rules) ==
    IF i > Len(rules) THEN NotFound
    ELSE IF PathEq(rules[i].Path, requestPath)
         THEN [rule |-> i, found |-> TRUE]
         ELSE FindMatchFrom(i + 1, requestPath, rules)

\* a search that keeps the last rule whose path matches
FindMatchLast(requestPath, rules) ==
    LET hits == {i \in 1..Len(rules) : PathEq(rules[i].Path, requestPath)}
    IN  IF hits = {} THEN NotFound
        ELSE [rule |-> CHOOSE i \in hits : \A j \in hits : j <= i, found |-> TRUE]

FindMatch(requestPath, rules) ==
    IF Len(rules) = 0 THEN NotFound
    ELSE FindMatchFrom(1, requestPath, rules)

----------------------------------------------------------------------------
(* ResponseBuilderImpl *)

DefaultStatusCode == 200

\* a builder that also replaces negative ("invalid") codes
BuildResponseClamp(rule) ==
    [statusCode |-> IF rule.Code <= 0 THEN DefaultStatusCode ELSE rule.Code,
     body       |-> rule.Response]

\* a builder that hands rule.Code on as it is
BuildResponseRaw(rule) ==
    [statusCode |-> rule.Code, body |-> rule.Response]

BuildResponse(rule) ==
    [statusCode |-> IF rule.Code = 0 THEN DefaultStatusCode ELSE rule.Code,
     body       |-> rule.Response]

\* a default whose body is the nil map (`var body map[string]interface{}`)
BuildDefaultResponseNil == [statusCode |-> DefaultStatusCode, body |-> NilMap]

\* a default that answers 404 Not Found
BuildDefaultResponseNotFound == [statusCode |-> 404, body |-> EmptyMap]

BuildDefaultResponse == [statusCode |-> DefaultStatusCode, body |-> EmptyMap]

----------------------------------------------------------------------------
(* The configuration file.  A file is unreadable, or holds bytes that are
   not JSON, or holds a JSON value.  Only the parts of the value that
   encoding/json looks at when it decodes into models.Config are kept: the
   top-level value, its "rules" member, the array elements and their "path",
   "response" and "code" members. *)

JAbsent    == [t |-> "absent", s |-> <<>>, n |-> 0, kv |-> {}]
JNull      == [t |-> "null",   s |-> <<>>, n |-> 0, kv |-> {}]
JString(s) == [t |-> "string", s |-> s,    n |-> 0, kv |-> {}]
JNumber(n) == [t |-> "number", s |-> <<>>, n |-> n, kv |-> {}]
JObject(m) == [t |-> "object", s |-> <<>>, n |-> 0, kv |-> m]

\* an array element that is a JSON object with these members
Elem(path, response, code) ==
    [t |-> "object", path |-> path, response |-> response, code |-> code]
\* an array element that is not an object
ElemOf(type) ==
    [t |-> type, path |-> JAbsent, response |-> JAbsent, code |-> JAbsent]

RulesArray(elems) == [t |-> "array", elems |-> elems]
RulesOf(type)     == [t |-> type, elems |-> <<>>]

Unreadable   == [readable |-> FALSE, valid |-> FALSE,
                 top |-> [t |-> "null", rules |-> RulesOf("absent")]]
InvalidJSON  == [readable |-> TRUE, valid |-> FALSE,
                 top |-> [t |-> "null", rules |-> RulesOf("absent")]]
TopLevel(type) == [readable |-> TRUE, valid |-> TRUE,
                   top |-> [t |-> type, rules |-> RulesOf("absent")]]
Document(rules) == [readable |-> TRUE, valid |-> TRUE,
                    top |-> [t |-> "object", rules |-> rules]]

----------------------------------------------------------------------------
(* json.Unmarshal into a models.Config.  Every decoder returns the value it
   leaves behind together with the error flag: on a type mismatch
   encoding/json records the error, skips the offending value and goes on
   decoding, so the destination may be partly filled when an error is
   returned; on a syntax error nothing is decoded at all. *)

\* a decoder that skips a member of the wrong type without an error
DecodePathLenient(j, old) ==
    CASE j.t = "string" -> [err |-> FALSE, val |-> j.s]
      [] OTHER          -> [err |-> FALSE, val |-> old]

\* string field: null and a missing member leave the field alone
DecodePath(j, old) ==
    CASE j.t \in {"absent", "null"} -> [err |-> FALSE, val |-> old]
      [] j.t = "string"             -> [err |-> FALSE, val |-> j.s]
      [] OTHER                      -> [err |-> TRUE,  val |-> old]

\* int field
DecodeCode(j, old) ==
    CASE j.t \in {"absent", "null"} -> [err |-> FALSE, val |-> old]
      [] j.t = "number"             -> [err |-> FALSE, val |-> j.n]
      [] OTHER                      -> [err |-> TRUE,  val |-> old]

\* map field: null stores the nil map
DecodeResponse(j, old) ==
    CASE j.t = "absent" -> [err |-> FALSE, val |-> old]
      [] j.t = "null"   -> [err |-> FALSE, val |-> NilMap]
      [] j.t = "object" -> [err |-> FALSE, val |-> [isNil |-> FALSE, kv |-> j.kv]]
      [] OTHER          -> [err |-> TRUE,  val |-> old]

\* one array element into a MockRule
DecodeRule(e, old) ==
    CASE e.t = "null"   -> [err |-> FALSE, val |-> old]
      [] e.t = "object" ->
            LET p == DecodePath(e.path, old.Path)
                r == DecodeResponse(e.response, old.Response)
                c == DecodeCode(e.code, old.Code)
            IN  [err |-> p.err \/ r.err \/ c.err,
                 val |-> MockRule(p.val, r.val, c.val)]
      [] OTHER          -> [err |-> TRUE, val |-> old]

\* the "rules" member into a []MockRule
DecodeRules(j, old) ==
    CASE j.t = "absent" -> [err |-> FALSE, val |-> old]
      [] j.t = "null"   -> [err |-> FALSE, val |-> <<>>]
      [] j.t = "array"  ->
            [err |-> \E i \in 1..Len(j.elems) : DecodeRule(j.elems[i], ZeroRule).err,
             val |-> [i \in 1..Len(j.elems) |-> DecodeRule(j.elems[i], ZeroRule).val]]
      [] OTHER          -> [err |-> TRUE, val |-> old]

Unmarshal(data, v) ==
    IF ~data.valid THEN [err |-> TRUE, val |-> v]
    ELSE CASE data.top.t = "null"   -> [err |-> FALSE, val |-> v]
           [] data.top.t = "object" ->
                 LET r == DecodeRules(data.top.rules, v.Rules)
                 IN  [err |-> r.err, val |-> [Rules |-> r.val]]
           [] OTHER                 -> [err |-> TRUE, val |-> v]

----------------------------------------------------------------------------
(* ConfigManagerImpl *)

\* a manager constructed with a sample rule
NewConfigManagerSample == [Rules |-> << MockRule(PathA, SomeMap, 200) >>]

NewConfigManager == [Rules |-> <<>>]

\* a load that stores what was decoded before it looks at the error
LoadConfigStoreFirst(file, config) ==
    IF ~file.readable THEN [err |-> "read", config |-> config]
    ELSE LET r == Unmarshal(file, ZeroConfig)
         IN  [err |-> IF r.err THEN "parse" ELSE "nil", config |-> r.val]

\* a load that adds the decoded rules to the ones already held
LoadConfigMerge(file, config) ==
    IF ~file.readable THEN [err |-> "read", config |-> config]
    ELSE LET r == Unmarshal(file, ZeroConfig)
         IN  IF r.err THEN [err |-> "parse", config |-> config]
             ELSE [err |-> "nil", config |-> [Rules |-> config.Rules \o r.val.Rules]]

\* LoadConfig(filePath), file being what filePath holds: the error returned
\* and the value of cm.config when it returns
LoadConfig(file, config) ==
    IF ~file.readable THEN [err |-> "read", config |-> config]
    ELSE LET r == Unmarshal(file, ZeroConfig)
         IN  IF r.err THEN [err |-> "parse", config |-> config]
             ELSE [err |-> "nil", config |-> r.val]

GetConfig(config) == config.Rules

----------------------------------------------------------------------------
(* LoggerImpl: the entry each call writes (the timestamp is left out) *)

\* a value json.Marshal has no encoding for, and a map holding one
ChanValue == "make(chan int)"
ChanMap   == [isNil |-> FALSE, kv |-> {<<"k", ChanValue>>}]

\* json.Marshal(body) returns no error
MarshalOK(body) == \A pair \in body.kv : pair[2] # ChanValue

\* json.Marshal(logEntry) returns no error: strings, ints and string maps
\* always encode, a body may not
Serializable(logEntry) == logEntry.type = "response" => MarshalOK(logEntry.body)

\* the fallback entry of writeLog
LogError == [type |-> "log_error"]

\* a writeLog that prints the entry without looking at the error
WriteLogUnchecked(logEntry) == logEntry

\* writeLog: the entry printed on stdout
WriteLog(logEntry) == IF Serializable(logEntry) THEN logEntry ELSE LogError

LogRequest(method, path, params) ==
    WriteLog([type |-> "request", method |-> method, path |-> path, params |-> params])
\* a LogMatch that reports the status the response will have
LogMatchEffective(rule) ==
    WriteLog([type |-> "match", path |-> rule.Path,
              code |-> IF rule.Code = 0 THEN 200 ELSE rule.Code])

LogMatch(rule) ==
    WriteLog([type |-> "match", path |-> rule.Path, code |-> rule.Code])
LogDefault ==
    WriteLog([type |-> "default"])
LogResponse(statusCode, body) ==
    WriteLog([type |-> "response", status_code |-> statusCode, body |-> body])

----------------------------------------------------------------------------
(* UniversalHandler.  A query string is the sequence of its <<key, value>>
   pairs in source order. *)

QueryKeys(query) == {query[i][1] : i \in 1..Len(query)}

\* c.Request.URL.Query()[key]: the values of key, in source order
RECURSIVE QueryValues(_, _)
QueryValues(query, key) ==
    IF query = <<>> THEN <<>>
    ELSE IF Head(query)[1] = key
         THEN <<Head(query)[2]>> \o QueryValues(Tail(query), key)
         ELSE QueryValues(Tail(query), key)

\* params[key] = values[len(values)-1]
FlattenQueryLast(query) ==
    {<<k, QueryValues(query, k)[Len(QueryValues(query, k))]>> :
        k \in {x \in QueryKeys(query) : Len(QueryValues(query, x)) > 0}}

\* params[key] = values[0]
FlattenQuery(query) ==
    {<<k, QueryValues(query, k)[1]>> : k \in {x \in QueryKeys(query) : Len(QueryValues(query, x)) > 0}}

\* a handler whose no-match branch leaves statusCode and body unassigned
HandleResultUnset(method, path, query, config) ==
    LET params == FlattenQuery(query)
        rules  == GetConfig(config)
        m      == FindMatch(path, rules)
        resp   == IF m.found THEN BuildResponse(rules[m.rule])
                  ELSE [statusCode |-> 0, body |-> NilMap]
    IN  [events |-> << LogRequest(method, path, params),
                       IF m.found THEN LogMatch(rules[m.rule]) ELSE LogDefault,
                       LogResponse(resp.statusCode, resp.body) >>,
         sent   |-> << [status |-> resp.statusCode, body |-> resp.body] >>]

\* a handler that looks rules up for GET requests only
HandleResultGetOnly(method, path, query, config) ==
    LET params == FlattenQuery(query)
        rules  == IF method = "GET" THEN GetConfig(config) ELSE <<>>
        m      == FindMatch(path, rules)
        resp   == IF m.found THEN BuildResponse(rules[m.rule])
                  ELSE BuildDefaultResponse
    IN  [events |-> << LogRequest(method, path, params),
                       IF m.found THEN LogMatch(rules[m.rule]) ELSE LogDefault,
                       LogResponse(resp.statusCode, resp.body) >>,
         sent   |-> << [status |-> resp.statusCode, body |-> resp.body] >>]

\* a handler that logs the default event for every request, matched or not
HandleResultDefaultLogged(method, path, query, config) ==
    LET params == FlattenQuery(query)
        rules  == GetConfig(config)
        m      == FindMatch(path, rules)
        resp   == IF m.found THEN BuildResponse(rules[m.rule])
                  ELSE BuildDefaultResponse
    IN  [events |-> << LogRequest(method, path, params),
                       LogDefault,
                       LogResponse(resp.statusCode, resp.body) >>,
         sent   |-> << [status |-> resp.statusCode, body |-> resp.body] >>]

\* HandleRequest: the log entries it writes, in order, and what it hands to
\* c.JSON
HandleResult(method, path, query, config) ==
    LET params == FlattenQuery(query)
        rules  == GetConfig(config)
        m      == FindMatch(path, rules)
        resp   == IF m.found THEN BuildResponse(rules[m.rule])
                  ELSE BuildDefaultResponse
    IN  [events |-> << LogRequest(method, path, params),
                       IF m.found THEN LogMatch(rules[m.rule]) ELSE LogDefault,
                       LogResponse(resp.statusCode, resp.body) >>,
         sent   |-> << [status |-> resp.statusCode, body |-> resp.body] >>]

\* c.JSON(statusCode, body) writes json.Marshal(body): a nil map is written
\* as null, any other map as an object
Marshal(body) == IF body.isNil THEN JNull ELSE JObject(body.kv)

----------------------------------------------------------------------------
(* Inputs *)

SomeKV == {<<"k", "v">>}

\* array elements of the configuration documents: the element of the README
\* with one member varied at a time
PathMembers     == {JString(PathA), JString(PathB), JString(PathEmpty),
                    JAbsent, JNumber(1)}
ResponseMembers == {JObject(SomeKV), JObject({}), JAbsent}
CodeMembers     == {JNumber(404), JAbsent}

Elements ==
    {Elem(p, JObject(SomeKV), JNumber(404)) : p \in PathMembers}
    \cup {Elem(JString(PathA), r, JNumber(404)) : r \in ResponseMembers}
    \cup {Elem(JString(PathA), JObject(SomeKV), c) : c \in CodeMembers}

\* documents whose shape is not {"rules": [...]}
ShapeFiles ==
    {Unreadable, InvalidJSON, TopLevel("array"),
     Document(RulesOf("absent")), Document(RulesOf("string"))}

\* what the file named by -config may hold
ConfigFiles ==
    ShapeFiles \cup {Document(RulesArray(e)) : e \in SeqUpTo(Elements, MaxRules)}

\* the files of the ConfigManager harness
TestElements ==
    {Elem(p, JObject(SomeKV), JNumber(404)) : p \in {JString(PathA), JString(PathB), JNumber(1)}}
    \cup {Elem(JString(PathA), JAbsent, JAbsent)}
TestFiles ==
    ShapeFiles \cup {Document(RulesArray(e)) : e \in SeqUpTo(TestElements, MaxRules)}

Methods == {"GET", "POST"}
RequestPaths == {PathA, PathB, PathUpperA, PathHealth}
Queries ==
    { <<>>,
      << <<"tags", "tag1">>, <<"tags", "tag2">> >>,
      << <<"tags", "tag1">>, <<"page", "1">>, <<"tags", "tag2">>, <<"tags", "tag3">> >> }

\* rule lists handed to FindMatch, rules handed to BuildResponse
MatcherRules == {MockRule(p, SomeMap, 404) : p \in Paths}
BuilderRules == {MockRule(PathA, r, c) : r \in {NilMap, EmptyMap, SomeMap},
                                         c \in {-1, 0, 1, 200, 404}}

----------------------------------------------------------------------------
(* main() *)

HealthStatusCode == 200
HealthBody ==
    [isNil |-> FALSE, kv |-> {<<"status", "healthy">>, <<"service", "mock-service">>}]

Init ==
    /\ pc = "start"
    /\ fs \in ConfigFiles
    /\ cm = NewConfigManager
    /\ loadErr = "none"
    /\ req = <<>>
    /\ events = <<>>
    /\ sent = <<>>
    /\ call = <<>>
    /\ seen = <<>>
    /\ NoGoroutines

\* a start-up that logs the load error and goes on
MainLoadConfigGoOn ==
    /\ pc = "start"
    /\ LET r == LoadConfig(fs, cm)
       IN  /\ cm' = r.config
           /\ loadErr' = r.err
           /\ pc' = "loaded"
    /\ UNCHANGED <<seen, conc>>
    /\ UNCHANGED <<fs, req, events, sent, call>>

\* configManager.LoadConfig(configFile); log.Fatalf on error
MainLoadConfig ==
    /\ pc = "start"
    /\ LET r == LoadConfig(fs, cm)
       IN  /\ cm' = r.config
           /\ loadErr' = r.err
           /\ pc' = IF r.err # "nil" THEN "fatal" ELSE "loaded"
    /\ UNCHANGED <<seen, conc>>
    /\ UNCHANGED <<fs, req, events, sent, call>>

\* router.Run in its goroutine: it listens, or fails and log.Fatalf ends the
\* process
MainRun ==
    /\ pc = "loaded"
    /\ \E listening \in BOOLEAN :
          pc' = IF listening THEN "serving" ELSE "fatal"
    /\ UNCHANGED <<seen, conc>>
    /\ UNCHANGED <<fs, cm, loadErr, req, events, sent, call>>

\* router.GET("/health", ...)
HealthCheck ==
    /\ pc = "serving"
    /\ \E query \in Queries :
          req' = << [method |-> "GET", path |-> PathHealth, query |-> query,
                     route |-> "health"] >>
    /\ events' = <<>>
    /\ sent' = << [status |-> HealthStatusCode, body |-> HealthBody] >>
    /\ UNCHANGED <<seen, conc>>
    /\ UNCHANGED <<pc, fs, cm, loadErr, call>>

\* router.NoRoute(universalHandler.HandleRequest)
HandleRequest ==
    /\ pc = "serving"
    /\ \E method \in Methods, path \in RequestPaths, query \in Queries :
          /\ ~(method = "GET" /\ path = PathHealth)
          /\ req' = << [method |-> method, path |-> path, query |-> query,
                        route |-> "universal"] >>
          /\ LET h == HandleResult(method, path, query, cm)
             IN  /\ events' = h.events
                 /\ sent' = h.sent
    /\ UNCHANGED <<seen, conc>>
    /\ UNCHANGED <<pc, fs, cm, loadErr, call>>

\* SIGINT or SIGTERM arrives on quit
Signal ==
    /\ pc \in {"loaded", "serving"}
    /\ pc' = "exited"
    /\ UNCHANGED <<seen, conc>>
    /\ UNCHANGED <<fs, cm, loadErr, req, events, sent, call>>

Next ==
    \/ MainLoadConfig
    \/ MainRun
    \/ HealthCheck
    \/ HandleRequest
    \/ Signal

Spec == Init /\ [][Next]_vars

----------------------------------------------------------------------------
(* The ConfigManager on its own *)

InitConfig ==
    /\ pc = "config"
    /\ fs = Unreadable
    /\ cm = NewConfigManager
    /\ loadErr = "none"
    /\ req = <<>>
    /\ events = <<>>
    /\ sent = <<>>
    /\ call = <<>>
    /\ seen = <<>>
    /\ NoGoroutines

LoadConfigCall ==
    /\ pc = "config"
    /\ \E file \in TestFiles :
          /\ fs' = file
          /\ LET r == LoadConfig(file, cm)
             IN  /\ cm' = r.config
                 /\ loadErr' = r.err
    /\ call' = <<>>
    /\ UNCHANGED <<seen, conc>>
    /\ UNCHANGED <<pc, req, events, sent>>

GetConfigCall ==
    /\ pc = "config"
    /\ call' = << [op |-> "GetConfig", ret |-> GetConfig(cm)] >>
    /\ UNCHANGED <<seen, conc>>
    /\ UNCHANGED <<pc, fs, cm, loadErr, req, events, sent>>

NextConfig ==
    \/ LoadConfigCall
    \/ GetConfigCall

SpecConfig == InitConfig /\ [][NextConfig]_vars

----------------------------------------------------------------------------
(* The stateless components on their own.  after is the operation called
   before this one. *)

LastOp == IF call = <<>> THEN "none" ELSE call[1].op

\* the components are called with no configuration loaded, or with one
UnitFiles == {Unreadable, Document(RulesArray(<< Elem(JString(PathA), JObject(SomeKV), JNumber(404)) >>))}

InitUnit ==
    /\ pc = "unit"
    /\ fs \in UnitFiles
    /\ cm = LoadConfig(fs, NewConfigManager).config
    /\ loadErr = LoadConfig(fs, NewConfigManager).err
    /\ req = <<>>
    /\ events = <<>>
    /\ sent = <<>>
    /\ call = <<>>
    /\ seen = <<>>
    /\ NoGoroutines

FindMatchCall ==
    /\ pc = "unit"
    /\ \E requestPath \in Paths, rules \in SeqUpTo(MatcherRules, MaxRules) :
          call' = << [op |-> "FindMatch", after |-> LastOp,
                      requestPath |-> requestPath, rules |-> rules,
                      ret |-> FindMatch(requestPath, rules)] >>
    /\ UNCHANGED <<seen, conc>>
    /\ UNCHANGED <<pc, fs, cm, loadErr, req, events, sent>>

BuildResponseCall ==
    /\ pc = "unit"
    /\ \E rule \in BuilderRules :
          call' = << [op |-> "BuildResponse", after |-> LastOp,
                      rule |-> rule, ret |-> BuildResponse(rule)] >>
    /\ UNCHANGED <<seen, conc>>
    /\ UNCHANGED <<pc, fs, cm, loadErr, req, events, sent>>

BuildDefaultResponseCall ==
    /\ pc = "unit"
    /\ call' = << [op |-> "BuildDefaultResponse", after |-> LastOp,
                   ret |-> BuildDefaultResponse] >>
    /\ UNCHANGED <<seen, conc>>
    /\ UNCHANGED <<pc, fs, cm, loadErr, req, events, sent>>

NextUnit ==
    \/ FindMatchCall
    \/ BuildResponseCall
    \/ BuildDefaultResponseCall

SpecUnit == InitUnit /\ [][NextUnit]_vars

----------------------------------------------------------------------------
(* The handler over a ConfigManager: requests are resolved whatever the
   ConfigManager holds, a new one included. *)

\* the requests of the handler tests
HandlerRequests ==
    { [method |-> "GET",  path |-> PathA,      query |-> <<>>],
      [method |-> "POST", path |-> PathA,      query |-> << <<"tags", "tag1">>, <<"tags", "tag2">> >>],
      [method |-> "GET",  path |-> PathB,      query |-> <<>>],
      [method |-> "POST", path |-> PathUpperA, query |-> <<>>] }

\* a handler that moves the matched rule to the front of the stored rules
HandleRequestCallMoveToFront ==
    /\ pc = "config"
    /\ \E r \in HandlerRequests :
          LET m == FindMatch(r.path, cm.Rules)
          IN  /\ call' = << [op |-> "HandleRequest", method |-> r.method,
                             path |-> r.path, query |-> r.query,
                             ret |-> HandleResult(r.method, r.path, r.query, cm)] >>
              /\ cm' = IF m.found
                       THEN [Rules |-> << cm.Rules[m.rule] >> \o
                                       SubSeq(cm.Rules, 1, m.rule - 1) \o
                                       SubSeq(cm.Rules, m.rule + 1, Len(cm.Rules))]
                       ELSE cm
    /\ UNCHANGED <<seen, conc>>
    /\ UNCHANGED <<pc, fs, loadErr, req, events, sent>>

HandleRequestCall ==
    /\ pc = "config"
    /\ \E r \in HandlerRequests :
          call' = << [op |-> "HandleRequest", method |-> r.method,
                      path |-> r.path, query |-> r.query,
                      ret |-> HandleResult(r.method, r.path, r.query, cm)] >>
    /\ UNCHANGED <<seen, conc>>
    /\ UNCHANGED <<pc, fs, cm, loadErr, req, events, sent>>

NextHandler ==
    \/ LoadConfigCall
    \/ GetConfigCall
    \/ HandleRequestCall

SpecHandler == InitConfig /\ [][NextHandler]_vars

----------------------------------------------------------------------------
(* The process, remembering one earlier request and its response: seen is
   left as it is or replaced by the request handled before this one; gap
   counts the requests handled between the two, up to MaxGap. *)

MaxGap == 2

\* the documents of this specification: rules for /a and for /health
HistoryElements ==
    { Elem(JString(PathA), JObject(SomeKV), JNumber(404)),
      Elem(JString(PathHealth), JObject(SomeKV), JNumber(404)),
      Elem(JString(PathA), JAbsent, JAbsent) }
HistoryFiles ==
    {Unreadable} \cup {Document(RulesArray(e)) : e \in SeqUpTo(HistoryElements, MaxRules)}

InitHistory ==
    /\ pc = "start"
    /\ fs \in HistoryFiles
    /\ cm = NewConfigManager
    /\ loadErr = "none"
    /\ req = <<>>
    /\ events = <<>>
    /\ sent = <<>>
    /\ call = <<>>
    /\ seen = <<>>
    /\ NoGoroutines

\* a router with the health route registered for every method
RouteAnyMethod(method, path) ==
    IF path = PathHealth THEN "health" ELSE "universal"

\* the router: GET /health has a route of its own, everything else has no
\* route and goes to the universal handler
Route(method, path) ==
    IF method = "GET" /\ path = PathHealth THEN "health" ELSE "universal"

\* a service that answers a path from its rule unless the request before
\* was for the same path
ServeOnce(method, path, query, config) ==
    IF Route(method, path) = "health"
    THEN [events |-> <<>>,
          sent   |-> << [status |-> HealthStatusCode, body |-> HealthBody] >>]
    ELSE IF req # <<>> /\ req[1].path = path
         THEN HandleResult(method, path, query, ZeroConfig)
         ELSE HandleResult(method, path, query, config)

\* what the handler of the route writes and sends
Serve(method, path, query, config) ==
    IF Route(method, path) = "health"
    THEN [events |-> <<>>,
          sent   |-> << [status |-> HealthStatusCode, body |-> HealthBody] >>]
    ELSE HandleResult(method, path, query, config)

\* one request, routed and handled
Dispatch ==
    /\ pc = "serving"
    /\ \E method \in Methods, path \in RequestPaths, query \in Queries :
          /\ req' = << [method |-> method, path |-> path, query |-> query,
                        route |-> Route(method, path)] >>
          /\ LET h == Serve(method, path, query, cm)
             IN  /\ events' = h.events
                 /\ sent' = h.sent
    /\ \/ seen' = IF seen = <<>> THEN <<>>
                   ELSE << [seen[1] EXCEPT !.gap = IF @ < MaxGap THEN @ + 1 ELSE @] >>
       \/ /\ req # <<>>
          /\ seen' = << [req |-> req[1], sent |-> sent[1], gap |-> 0] >>
    /\ UNCHANGED conc
    /\ UNCHANGED <<pc, fs, cm, loadErr, call>>

NextHistory ==
    \/ MainLoadConfig
    \/ MainRun
    \/ Dispatch
    \/ Signal

SpecHistory == InitHistory /\ [][NextHistory]_vars

----------------------------------------------------------------------------
(* Goroutines.  gin runs every request in a goroutine of its own, and nothing
   in ConfigManagerImpl synchronises LoadConfig with GetConfig.  The rule
   slice is a header of words (pointer, length) held in cm.config.Rules and
   a backing array on the heap: array 1 is the one the start-up load
   allocated, array 2 the one a later LoadConfig allocates.  A goroutine
   reads and writes the header word by word. *)

\* goroutines running HandleRequest at the same time
MaxHandlers == 2

Handlers == 1..MaxHandlers

\* the documents loaded: one rule, and two rules of which the first has no
\* "response" and no "code"
OneRuleFile ==
    Document(RulesArray(<< Elem(JString(PathA), JObject(SomeKV), JNumber(404)) >>))
TwoRulesFile ==
    Document(RulesArray(<< Elem(JString(PathA), JAbsent, JAbsent),
                           Elem(JString(PathB), JObject(SomeKV), JNumber(404)) >>))
StartFiles  == {OneRuleFile, TwoRulesFile}
ReloadFiles == {OneRuleFile, TwoRulesFile, InvalidJSON}

ReloadRequests ==
    { [method |-> "GET",  path |-> PathA, query |-> <<>>],
      [method |-> "POST", path |-> PathB, query |-> << <<"tags", "tag1">>, <<"tags", "tag2">> >>] }

\* what a read past the end of a backing array may find there
JunkRules == {ZeroRule, MockRule(PathB, EmptyMap, 500)}

IdleHandler ==
    [pc |-> "idle", method |-> "", path |-> <<>>, query |-> <<>>,
     ptr |-> 0, len |-> 0, junk |-> ZeroRule, view |-> <<>>,
     reloaded |-> FALSE, trace |-> <<>>, resp |-> <<>>]

IdleLoader ==
    [pc |-> "idle", new |-> [ptr |-> 0, len |-> 0], written |-> {}]

\* the process after a successful start-up load, serving
InitReload ==
    /\ pc = "serving"
    /\ fs \in StartFiles
    /\ cm = LoadConfig(fs, NewConfigManager).config
    /\ loadErr = LoadConfig(fs, NewConfigManager).err
    /\ req = <<>>
    /\ events = <<>>
    /\ sent = <<>>
    /\ call = <<>>
    /\ seen = <<>>
    /\ heap = << cm.Rules, <<>> >>
    /\ store = [ptr |-> 1, len |-> Len(cm.Rules)]
    /\ loader = IdleLoader
    /\ handlers = [h \in Handlers |-> IdleHandler]

\* a LoadConfig that decodes into cm.config itself: the elements are written
\* over the backing array in use
LoaderLoadInPlace ==
    /\ loader.pc = "idle"
    /\ \E file \in ReloadFiles :
          LET r == LoadConfig(file, cm)
          IN  /\ fs' = file
              /\ IF r.err # "nil"
                 THEN /\ loader' = [loader EXCEPT !.pc = "failed"]
                      /\ loadErr' = r.err
                      /\ UNCHANGED heap
                 ELSE /\ heap' = [heap EXCEPT ![store.ptr] = r.config.Rules]
                      /\ loader' = [pc |-> "store",
                                    new |-> [ptr |-> store.ptr, len |-> Len(r.config.Rules)],
                                    written |-> {}]
                      /\ UNCHANGED loadErr
    /\ UNCHANGED <<pc, cm, req, events, sent, call, seen, store, handlers>>

\* LoadConfig up to its last statement: the file is read and decoded into a
\* new Config, whose rules get a backing array of their own
LoaderLoad ==
    /\ loader.pc = "idle"
    /\ \E file \in ReloadFiles :
          LET r == LoadConfig(file, cm)
          IN  /\ fs' = file
              /\ IF r.err # "nil"
                 THEN /\ loader' = [loader EXCEPT !.pc = "failed"]
                      /\ loadErr' = r.err
                      /\ UNCHANGED heap
                 ELSE /\ heap' = [heap EXCEPT ![2] = r.config.Rules]
                      /\ loader' = [pc |-> "store",
                                    new |-> [ptr |-> 2, len |-> Len(r.config.Rules)],
                                    written |-> {}]
                      /\ UNCHANGED loadErr
    /\ UNCHANGED <<pc, cm, req, events, sent, call, seen, store, handlers>>

\* cm.config = config: one word of the header is written; LoadConfig returns
\* when both are
LoaderStore ==
    /\ loader.pc = "store"
    /\ \E word \in {"ptr", "len"} \ loader.written :
          /\ store' = [store EXCEPT ![word] = loader.new[word]]
          /\ IF loader.written \cup {word} = {"ptr", "len"}
             THEN /\ loader' = [loader EXCEPT !.pc = "done", !.written = {"ptr", "len"}]
                  /\ cm' = [Rules |-> heap[loader.new.ptr]]
                  /\ loadErr' = "nil"
             ELSE /\ loader' = [loader EXCEPT !.written = @ \cup {word}]
                  /\ UNCHANGED <<cm, loadErr>>
    /\ UNCHANGED <<pc, fs, req, events, sent, call, seen, heap, handlers>>

\* the backing array has no element i: the read goes past its end
PastEnd(ptr, i) == ptr \notin 1..Len(heap) \/ i > Len(heap[ptr])

\* the rules a goroutine finds behind a header
Slice(ptr, len, junk) ==
    [i \in 1..len |-> IF PastEnd(ptr, i) THEN junk ELSE heap[ptr][i]]

\* HandleRequest up to rules := GetConfig(): the request is taken apart and
\* logged, and the words of cm.config.Rules are read as they are in memory
HandlerBegin(h) ==
    /\ handlers[h].pc = "idle"
    /\ \E r \in ReloadRequests, junk \in JunkRules :
          /\ PastEnd(store.ptr, store.len) \/ junk = ZeroRule
          /\ handlers' = [handlers EXCEPT ![h] =
                [pc |-> "got", method |-> r.method, path |-> r.path,
                 query |-> r.query, ptr |-> store.ptr, len |-> store.len,
                 junk |-> junk, view |-> Slice(store.ptr, store.len, junk),
                 reloaded |-> FALSE,
                 trace |-> << LogRequest(r.method, r.path, FlattenQuery(r.query)) >>,
                 resp |-> <<>>]]
    /\ UNCHANGED <<pc, fs, cm, loadErr, req, events, sent, call, seen,
                   store, heap, loader>>

\* a handler that keeps the path in a field of the shared UniversalHandler,
\* where the other goroutines write theirs
HandlerResolveShared(h) ==
    /\ handlers[h].pc = "got"
    /\ \E g \in Handlers :
          /\ handlers[g].pc # "idle"
          /\ LET rules == Slice(handlers[h].ptr, handlers[h].len, handlers[h].junk)
                 m     == FindMatch(handlers[g].path, rules)
                 resp  == IF m.found THEN BuildResponse(rules[m.rule])
                          ELSE BuildDefaultResponse
             IN  handlers' = [handlers EXCEPT ![h] =
                    [@ EXCEPT !.pc = "resolved",
                              !.reloaded = (loader.pc = "done"),
                              !.trace = @ \o << IF m.found THEN LogMatch(rules[m.rule])
                                                 ELSE LogDefault,
                                                LogResponse(resp.statusCode, resp.body) >>,
                              !.resp = << [status |-> resp.statusCode,
                                           body |-> resp.body] >>]]
    /\ UNCHANGED <<pc, fs, cm, loadErr, req, events, sent, call, seen,
                   store, heap, loader>>

\* a handler that logs the response before the match
HandlerResolveResponseFirst(h) ==
    /\ handlers[h].pc = "got"
    /\ LET rules == Slice(handlers[h].ptr, handlers[h].len, handlers[h].junk)
           m     == FindMatch(handlers[h].path, rules)
           resp  == IF m.found THEN BuildResponse(rules[m.rule])
                    ELSE BuildDefaultResponse
       IN  handlers' = [handlers EXCEPT ![h] =
              [@ EXCEPT !.pc = "resolved",
                        !.reloaded = (loader.pc = "done"),
                        !.trace = @ \o << LogResponse(resp.statusCode, resp.body),
                                          IF m.found THEN LogMatch(rules[m.rule])
                                          ELSE LogDefault >>,
                        !.resp = << [status |-> resp.statusCode,
                                     body |-> resp.body] >>]]
    /\ UNCHANGED <<pc, fs, cm, loadErr, req, events, sent, call, seen,
                   store, heap, loader>>

\* a handler that returns without a response when no rule matches
HandlerResolveMatchedOnly(h) ==
    /\ handlers[h].pc = "got"
    /\ LET rules == Slice(handlers[h].ptr, handlers[h].len, handlers[h].junk)
           m     == FindMatch(handlers[h].path, rules)
           resp  == BuildResponse(rules[m.rule])
       IN  /\ m.found
           /\ handlers' = [handlers EXCEPT ![h] =
                 [@ EXCEPT !.pc = "resolved",
                           !.reloaded = (loader.pc = "done"),
                           !.trace = @ \o << LogMatch(rules[m.rule]),
                                             LogResponse(resp.statusCode, resp.body) >>,
                           !.resp = << [status |-> resp.statusCode,
                                        body |-> resp.body] >>]]
    /\ UNCHANGED <<pc, fs, cm, loadErr, req, events, sent, call, seen,
                   store, heap, loader>>

\* HandleRequest from FindMatch to LogResponse: the elements are read from
\* the backing array now, through the header read before; the match or the
\* default is logged, the response built and logged
HandlerResolve(h) ==
    /\ handlers[h].pc = "got"
    /\ LET rules == Slice(handlers[h].ptr, handlers[h].len, handlers[h].junk)
           m     == FindMatch(handlers[h].path, rules)
           resp  == IF m.found THEN BuildResponse(rules[m.rule])
                    ELSE BuildDefaultResponse
       IN  handlers' = [handlers EXCEPT ![h] =
              [@ EXCEPT !.pc = "resolved",
                        !.reloaded = (loader.pc = "done"),
                        !.trace = @ \o << IF m.found THEN LogMatch(rules[m.rule])
                                           ELSE LogDefault,
                                          LogResponse(resp.statusCode, resp.body) >>,
                        !.resp = << [status |-> resp.statusCode,
                                     body |-> resp.body] >>]]
    /\ UNCHANGED <<pc, fs, cm, loadErr, req, events, sent, call, seen,
                   store, heap, loader>>

\* the scan reads past the end of the backing array and the goroutine
\* faults: HandleRequest writes and sends nothing more
HandlerFault(h) ==
    /\ handlers[h].pc = "got"
    /\ PastEnd(handlers[h].ptr, handlers[h].len)
    /\ handlers' = [handlers EXCEPT ![h] = [@ EXCEPT !.pc = "faulted"]]
    /\ UNCHANGED <<pc, fs, cm, loadErr, req, events, sent, call, seen,
                   store, heap, loader>>

\* c.JSON(statusCode, body)
HandlerSend(h) ==
    /\ handlers[h].pc = "resolved"
    /\ handlers' = [handlers EXCEPT ![h] =
          [@ EXCEPT !.pc = "done",
                    !.trace = @ \o << [type |-> "sent",
                                       status |-> handlers[h].resp[1].status,
                                       body |-> handlers[h].resp[1].body] >>]]
    /\ UNCHANGED <<pc, fs, cm, loadErr, req, events, sent, call, seen,
                   store, heap, loader>>

NextReload ==
    \/ LoaderLoad
    \/ LoaderStore
    \/ \E h \in Handlers : HandlerBegin(h)
    \/ \E h \in Handlers : HandlerResolve(h)
    \/ \E h \in Handlers : HandlerFault(h)
    \/ \E h \in Handlers : HandlerSend(h)

SpecReload == InitReload /\ [][NextReload]_vars

----------------------------------------------------------------------------
(* The logger, and the handler over rules built in Go, as the handler tests
   build them: a Response may then hold a value that JSON cannot encode. *)

LoggerRules ==
    {MockRule(PathA, r, c) : r \in {SomeMap, ChanMap}, c \in {0, 404}}
LoggerBodies == {NilMap, SomeMap, ChanMap}
LoggerCodes  == {200, 204}

InitLogger ==
    /\ pc = "logger"
    /\ fs = Unreadable
    /\ cm \in {[Rules |-> rules] : rules \in SeqUpTo(LoggerRules, MaxRules)}
    /\ loadErr = "none"
    /\ req = <<>>
    /\ events = <<>>
    /\ sent = <<>>
    /\ call = <<>>
    /\ seen = <<>>
    /\ NoGoroutines

LogRequestCall ==
    /\ pc = "logger"
    /\ \E r \in HandlerRequests :
          call' = << [op |-> "LogRequest", method |-> r.method, path |-> r.path,
                      params |-> FlattenQuery(r.query),
                      written |-> << LogRequest(r.method, r.path, FlattenQuery(r.query)) >>] >>
    /\ UNCHANGED <<pc, fs, cm, loadErr, req, events, sent, seen, conc>>

LogResponseCall ==
    /\ pc = "logger"
    /\ \E statusCode \in LoggerCodes, body \in LoggerBodies :
          call' = << [op |-> "LogResponse", statusCode |-> statusCode, body |-> body,
                      written |-> << LogResponse(statusCode, body) >>] >>
    /\ UNCHANGED <<pc, fs, cm, loadErr, req, events, sent, seen, conc>>

LogMatchCall ==
    /\ pc = "logger"
    /\ \E rule \in LoggerRules :
          call' = << [op |-> "LogMatch", rule |-> rule,
                      written |-> << LogMatch(rule) >>] >>
    /\ UNCHANGED <<pc, fs, cm, loadErr, req, events, sent, seen, conc>>

LogDefaultCall ==
    /\ pc = "logger"
    /\ call' = << [op |-> "LogDefault", written |-> << LogDefault >>] >>
    /\ UNCHANGED <<pc, fs, cm, loadErr, req, events, sent, seen, conc>>

HandleRequestLogged ==
    /\ pc = "logger"
    /\ \E r \in HandlerRequests :
          call' = << [op |-> "HandleRequest", method |-> r.method,
                      path |-> r.path, query |-> r.query,
                      ret |-> HandleResult(r.method, r.path, r.query, cm)] >>
    /\ UNCHANGED <<pc, fs, cm, loadErr, req, events, sent, seen, conc>>

NextLogger ==
    \/ LogRequestCall
    \/ LogResponseCall
    \/ LogMatchCall
    \/ LogDefaultCall
    \/ HandleRequestLogged

SpecLogger == InitLogger /\ [][NextLogger]_vars

----------------------------------------------------------------------------
(* The requests of the process: main() calls LoadConfig once, before the
   router runs, so the request goroutines have the rule set to themselves.
   The Go scheduler lets every runnable goroutine run: a HandleRequest
   execution that can take a step eventually takes it. *)

\* the start-up documents: no rule, one rule, two rules
ServeFiles == StartFiles \cup {Document(RulesArray(<<>>))}

InitRequests ==
    /\ pc = "serving"
    /\ fs \in ServeFiles
    /\ cm = LoadConfig(fs, NewConfigManager).config
    /\ loadErr = LoadConfig(fs, NewConfigManager).err
    /\ req = <<>>
    /\ events = <<>>
    /\ sent = <<>>
    /\ call = <<>>
    /\ seen = <<>>
    /\ heap = << cm.Rules, <<>> >>
    /\ store = [ptr |-> 1, len |-> Len(cm.Rules)]
    /\ loader = IdleLoader
    /\ handlers = [h \in Handlers |-> IdleHandler]

NextRequests ==
    \/ \E h \in Handlers : HandlerBegin(h)
    \/ \E h \in Handlers : HandlerResolve(h)
    \/ \E h \in Handlers : HandlerSend(h)

SpecRequests ==
    /\ InitRequests
    /\ [][NextRequests]_vars
    /\ \A h \in Handlers : WF_vars(HandlerResolve(h))
    /\ \A h \in Handlers : WF_vars(HandlerSend(h))

----------------------------------------------------------------------------
(* Shutdown.  signal.Notify puts SIGINT or SIGTERM on the buffered channel
   quit; main, blocked on <-quit, is then runnable, and the Go scheduler
   lets it run: it prints "Shutting down" and returns, which ends the
   process.  Between the two the router goroutine is still there. *)

\* SIGINT or SIGTERM is put on quit
SignalNotify ==
    /\ pc \in {"loaded", "serving"}
    /\ pc' = "signalled"
    /\ UNCHANGED <<fs, cm, loadErr, req, events, sent, call, seen, conc>>

\* a main that takes the signal from quit and goes on serving
MainQuitIgnored ==
    /\ pc = "signalled"
    /\ pc' = "serving"
    /\ UNCHANGED <<fs, cm, loadErr, req, events, sent, call, seen, conc>>

\* <-quit returns; main prints and returns
MainQuit ==
    /\ pc = "signalled"
    /\ pc' = "exited"
    /\ UNCHANGED <<fs, cm, loadErr, req, events, sent, call, seen, conc>>

NextShutdown ==
    \/ MainLoadConfig
    \/ MainRun
    \/ HealthCheck
    \/ HandleRequest
    \/ SignalNotify
    \/ MainQuit

SpecShutdown ==
    /\ InitHistory
    /\ [][NextShutdown]_vars
    /\ WF_vars(MainQuit)

----------------------------------------------------------------------------
(* The response builder and the identity of the bodies.  A Go map is a
   reference: the Response of a rule and the body a builder returns are the
   address of a map object, 0 for the nil map.  heap[a] is the object at
   address a.  json.Unmarshal makes one object for every "response" object
   it decodes. *)

\* default bodies made in one run
MaxBodies == 2

BodyFiles == StartFiles

\* the number of rules[1..i] that hold a map
Objects(rules, i) == Cardinality({j \in 1..i : ~rules[j].Response.isNil})

\* the address of the map of rules[i]
AddrOf(rules, i) ==
    IF rules[i].Response.isNil THEN 0 ELSE Objects(rules, i)

\* the rules as the process holds them: Response is an address
RulesInMemory(rules) ==
    [i \in 1..Len(rules) |-> [rules[i] EXCEPT !.Response = AddrOf(rules, i)]]

\* the map objects of the rules
MapsInMemory(rules) ==
    [a \in 1..Objects(rules, Len(rules)) |->
        rules[CHOOSE i \in 1..Len(rules) : AddrOf(rules, i) = a].Response]

InitBodies ==
    /\ pc = "bodies"
    /\ fs \in BodyFiles
    /\ cm = [Rules |-> RulesInMemory(LoadConfig(fs, NewConfigManager).config.Rules)]
    /\ loadErr = LoadConfig(fs, NewConfigManager).err
    /\ req = <<>>
    /\ events = <<>>
    /\ sent = <<>>
    /\ call = <<>>
    /\ seen = <<>>
    /\ store = [ptr |-> 0, len |-> 0]
    /\ heap = MapsInMemory(LoadConfig(fs, NewConfigManager).config.Rules)
    /\ loader = [pc |-> "none"]
    /\ handlers = <<>>

\* one map for all the default bodies, made by the first call
MakeDefaultBodyShared(mem) ==
    LET shared == Cardinality({i \in 1..Len(cm.Rules) : cm.Rules[i].Response # 0}) + 1
    IN  [addr |-> shared,
         mem  |-> IF shared <= Len(mem) THEN mem
                  ELSE Append(mem, BuildDefaultResponse.body)]

\* `map[string]interface{}{}`: a new object at an address not in use
MakeDefaultBody(mem) ==
    [addr |-> Len(mem) + 1, mem |-> Append(mem, BuildDefaultResponse.body)]

\* BuildResponse over a rule in memory: body is rule.Response, the address
BuildResponseRef ==
    /\ pc = "bodies"
    /\ \E i \in 1..Len(cm.Rules) :
          call' = << [op |-> "BuildResponse", after |-> LastOp, rule |-> i,
                      ret |-> BuildResponse(cm.Rules[i])] >>
    /\ UNCHANGED <<pc, fs, cm, loadErr, req, events, sent, seen, conc>>

BuildDefaultResponseRef ==
    /\ pc = "bodies"
    /\ Len(heap) < Cardinality({i \in 1..Len(cm.Rules) : cm.Rules[i].Response # 0}) + MaxBodies
    /\ LET made == MakeDefaultBody(heap)
       IN  /\ heap' = made.mem
           /\ call' = << [op |-> "BuildDefaultResponse", after |-> LastOp,
                          ret |-> [statusCode |-> BuildDefaultResponse.statusCode,
                                   body       |-> made.addr]] >>
    /\ UNCHANGED <<pc, fs, cm, loadErr, req, events, sent, seen, store, loader, handlers>>

\* the caller writes body["x"] = "y" to the body it was handed last; a write
\* to the nil map panics and changes nothing
CallerWrite ==
    /\ pc = "bodies"
    /\ call # <<>>
    /\ call[1].op \in {"BuildResponse", "BuildDefaultResponse"}
    /\ call[1].ret.body # 0
    /\ heap' = [heap EXCEPT ![call[1].ret.body].kv = @ \cup {<<"x", "y">>}]
    /\ call' = << [op |-> "write", after |-> LastOp, addr |-> call[1].ret.body] >>
    /\ UNCHANGED <<pc, fs, cm, loadErr, req, events, sent, seen, store, loader, handlers>>

NextBodies ==
    \/ BuildResponseRef
    \/ BuildDefaultResponseRef
    \/ CallerWrite

SpecBodies == InitBodies /\ [][NextBodies]_vars

----------------------------------------------------------------------------
(* Properties of the path matcher (SpecUnit) *)

IsCall(op) == call # <<>> /\ call[1].op = op

\* indexes of the rules whose path is the request path
Hits(requestPath, rules) ==
    {i \in 1..Len(rules) : rules[i].Path = requestPath}

\* C1: FindMatch(p, R) returns (the rule of smallest index whose Path equals
\* p, true) when there is one, and (nil, false) exactly when no rule of R has
\* Path p, the empty R included; of several rules with the same path the
\* earliest is returned.
C1_FindMatchFirst ==
    IsCall("FindMatch") =>
        LET c    == call[1]
            hits == Hits(c.requestPath, c.rules)
        IN  /\ c.ret.found <=> hits # {}
            /\ hits = {} => c.ret = [rule |-> 0, found |-> FALSE]
            /\ hits # {} => /\ c.ret.rule \in hits
                            /\ \A j \in hits : c.ret.rule <= j

\* the request path is the path of the first two rules, and the first wins
C1_Witness ==
    /\ IsCall("FindMatch")
    /\ Len(call[1].rules) >= 2
    /\ call[1].rules[1].Path = call[1].requestPath
    /\ call[1].rules[2].Path = call[1].requestPath
    /\ call[1].ret = [rule |-> 1, found |-> TRUE]

\* p and q differ, and differ only by letter case, by a trailing slash, or by
\* one being a prefix of the other
NearMiss(p, q) ==
    /\ p # q
    /\ \/ ToLower(p) = ToLower(q)
       \/ p = q \o <<"/">>
       \/ q = p \o <<"/">>
       \/ IsPrefix(p, q)
       \/ IsPrefix(q, p)

\* C2: matching is exact string equality: a rule whose path differs from the
\* request path only in letter case, by a trailing slash, or by being a
\* prefix or an extension of it, is never the rule returned, and when every
\* rule is such a near miss nothing is found.
C2_ExactMatchOnly ==
    IsCall("FindMatch") =>
        LET c == call[1]
        IN  /\ \A i \in 1..Len(c.rules) :
                  NearMiss(c.rules[i].Path, c.requestPath) => c.ret.rule # i
            /\ (\A i \in 1..Len(c.rules) : c.rules[i].Path # c.requestPath)
                  => ~c.ret.found

\* /a is looked up among a rule for /A and a rule for /a/
C2_Witness ==
    /\ IsCall("FindMatch")
    /\ call[1].requestPath = PathA
    /\ {call[1].rules[i].Path : i \in 1..Len(call[1].rules)} = {PathUpperA, PathASlash}
    /\ ~call[1].ret.found

----------------------------------------------------------------------------
(* Properties of the response builder (SpecUnit) *)

C6_BuildDefaultResponse ==
    IsCall("BuildDefaultResponse") =>
        /\ call[1].ret.statusCode = 200
        /\ call[1].ret.body = [isNil |-> FALSE, kv |-> {}]

\* rules are loaded and the default is built right after a rule's response
C6_Witness ==
    /\ IsCall("BuildDefaultResponse")
    /\ call[1].after = "BuildResponse"
    /\ Len(cm.Rules) > 0

----------------------------------------------------------------------------
(* Properties of request handling (Spec) *)

Handled   == req # <<>>
Universal == Handled /\ req[1].route = "universal"
NoRuleHasPath == Hits(req[1].path, cm.Rules) = {}

----------------------------------------------------------------------------
(* Properties of the configuration manager *)

\* the rule a JSON array element stands for
ElementRule(e) ==
    MockRule(IF e.t = "object" /\ e.path.t = "string" THEN e.path.s ELSE <<>>,
             IF e.t = "object" /\ e.response.t = "object"
                THEN [isNil |-> FALSE, kv |-> e.response.kv]
                ELSE [isNil |-> TRUE, kv |-> {}],
             IF e.t = "object" /\ e.code.t = "number" THEN e.code.n ELSE 0)

\* the rules of a document, in the document's order
DocumentRules(file) ==
    IF file.top.t = "object" /\ file.top.rules.t = "array"
    THEN [i \in 1..Len(file.top.rules.elems) |-> ElementRule(file.top.rules.elems[i])]
    ELSE <<>>

\* C7 (SpecConfig): after a successful LoadConfig, GetConfig returns exactly
\* the rules of the loaded document, in the document's order and with its
\* duplicates; nothing of an earlier load is left.
C7_LoadReplaces ==
    loadErr = "nil" =>
        /\ cm.Rules = DocumentRules(fs)
        /\ IsCall("GetConfig") =>
              /\ Len(call[1].ret) = Len(DocumentRules(fs))
              /\ \A i \in 1..Len(call[1].ret) : call[1].ret[i] = DocumentRules(fs)[i]

\* GetConfig after the load of a document that holds the same rule twice
C7_Witness ==
    /\ loadErr = "nil"
    /\ IsCall("GetConfig")
    /\ Len(call[1].ret) = 2
    /\ call[1].ret[1] = call[1].ret[2]
    /\ call[1].ret[1].Path = PathA

\* C8 (SpecConfig): a LoadConfig of a file that cannot be read or is not
\* valid JSON returns an error, and a LoadConfig that returns an error leaves
\* the stored rule set exactly as it was.
C8_FailedLoadKeepsRules ==
    [][ LoadConfigCall =>
          /\ (~fs'.readable \/ ~fs'.valid) => loadErr' \in {"read", "parse"}
          /\ loadErr' \in {"read", "parse"} => cm' = cm ]_vars

\* a load has failed on bytes that are not JSON while the rules of an earlier
\* load are held
C8_Witness ==
    /\ loadErr = "parse"
    /\ fs.readable
    /\ ~fs.valid
    /\ Len(cm.Rules) > 0

\* the shape of the document is not {"rules": [{"path": <string>, ...}, ...]}
ShapeMismatch(file) ==
    /\ file.readable
    /\ file.valid
    /\ \/ file.top.t # "object"
       \/ file.top.rules.t # "array"
       \/ \E i \in 1..Len(file.top.rules.elems) :
             \/ file.top.rules.elems[i].t # "object"
             \/ file.top.rules.elems[i].path.t # "string"

TypeMismatch(file) ==
    /\ file.readable
    /\ file.valid
    /\ \/ file.top.t \notin {"object", "null"}
       \/ /\ file.top.t = "object"
          /\ \/ file.top.rules.t \notin {"absent", "null", "array"}
             \/ \E i \in 1..Len(file.top.rules.elems) :
                   \/ file.top.rules.elems[i].t \notin {"object", "null"}
                   \/ file.top.rules.elems[i].path.t \notin {"absent", "null", "string"}

\* "rules" is missing, or an element has no "path", and nothing else is off
OnlyMissing(file) ==
    /\ ShapeMismatch(file)
    /\ ~TypeMismatch(file)

----------------------------------------------------------------------------
(* Properties of the start-up (Spec) *)

\* C10: the process serves only after LoadConfig has succeeded: when the file
\* is unreadable or not valid JSON, or the load fails otherwise, the process
\* ends at start-up, and every request is resolved against the whole rule set
\* of the document.
C10_ServeOnlyAfterLoad ==
    /\ (pc \in {"loaded", "serving"} \/ Handled) =>
          /\ loadErr = "nil"
          /\ fs.readable /\ fs.valid
          /\ cm.Rules = DocumentRules(fs)
    /\ (pc # "start" /\ (~fs.readable \/ ~fs.valid)) => pc = "fatal"
    /\ loadErr \in {"read", "parse"} => (pc = "fatal" /\ ~Handled)

\* the process has ended on a configuration that is not valid JSON
C10_Witness ==
    /\ pc = "fatal"
    /\ loadErr = "parse"
    /\ ~fs.valid
    /\ ~Handled

----------------------------------------------------------------------------
(* A rule without "response" (Spec) *)

\* the first rule of the rule set with the path of the request handled last
FirstHit == FindMatch(req[1].path, cm.Rules)

\* the elements of the loaded document
LoadedElems == fs.top.rules.elems

\* C11 as stated: a request that matches a rule whose "response" is absent
\* from the document is answered with the body {}, an empty JSON object, and
\* not with null.
C11_AbsentResponseIsEmptyObject ==
    (pc \in {"loaded", "serving", "exited"} /\ fs.top.rules.t = "array") =>
        \A i \in 1..Len(LoadedElems) :
            ( /\ LoadedElems[i].t = "object"
              /\ LoadedElems[i].response = JAbsent
              /\ Universal
              /\ FirstHit = [rule |-> i, found |-> TRUE] ) =>
                Marshal(sent[1].body) = JObject({})

----------------------------------------------------------------------------
(* The new ConfigManager (SpecHandler) *)

\* this step is a LoadConfig call that succeeds
SuccessfulLoad == LoadConfigCall /\ loadErr' = "nil"

\* C12: a newly constructed ConfigManager holds the empty rule set, and as
\* long as no LoadConfig has succeeded it keeps it: GetConfig returns a rule
\* set of length 0 and every request resolved gets the default response
\* (200, {}).
C12_NewManagerIsEmpty ==
    /\ Len(cm.Rules) = 0
    /\ [][ (Len(cm.Rules) = 0 /\ ~SuccessfulLoad) =>
              /\ Len(cm'.Rules) = 0
              /\ GetConfigCall => Len(call'[1].ret) = 0
              /\ HandleRequestCall =>
                    call'[1].ret.sent = << [status |-> 200, body |-> EmptyMap] >> ]_vars

\* a request resolved by a handler whose ConfigManager has had no LoadConfig
\* call yet
C12_Witness ==
    /\ loadErr = "none"
    /\ IsCall("HandleRequest")
    /\ call[1].path = PathA
    /\ call[1].ret.sent = << [status |-> 200, body |-> EmptyMap] >>

----------------------------------------------------------------------------
(* Load, then resolve (Spec) *)

\* the answer the loaded document prescribes for a path
Prescribed(file, path) ==
    LET rules == DocumentRules(file)
        hits  == Hits(path, rules)
    IN  IF hits = {}
        THEN [status |-> 200, body |-> [isNil |-> FALSE, kv |-> {}]]
        ELSE LET first == CHOOSE i \in hits : \A j \in hits : i <= j
             IN  [status |-> IF rules[first].Code = 0 THEN 200 ELSE rules[first].Code,
                  body   |-> rules[first].Response]

\* C13: once a document is loaded, a request for a path that some rule of
\* the document carries is answered with the status (Code, or 200 when Code
\* is 0) and the body of the first such rule in the document's order, and a
\* request for any other path is answered (200, {}).
C13_LoadThenResolve ==
    Universal => sent = << Prescribed(fs, req[1].path) >>

\* the document holds a rule for /a and then a rule for /b with code 404;
\* /b is requested and answered by the second rule
C13_Witness ==
    /\ Universal
    /\ Len(DocumentRules(fs)) = 2
    /\ DocumentRules(fs)[1].Path = PathA
    /\ DocumentRules(fs)[1].Code = 0
    /\ DocumentRules(fs)[2].Path = PathB
    /\ req[1].path = PathB
    /\ sent = << [status |-> 404, body |-> SomeMap] >>

----------------------------------------------------------------------------
(* Rules with the same path (Spec) *)

\* rule j comes after a rule with the same path
Shadowed(rules, j) == \E i \in 1..(j - 1) : rules[i].Path = rules[j].Path

\* what the handler sends when it resolves the request to this rule
AnswerOf(rule) ==
    [status |-> IF rule.Code = 0 THEN 200 ELSE rule.Code, body |-> rule.Response]

\* C14: a rule that comes after a rule with the same path is kept by the
\* load, as it stands in the document, and is never the rule a request is
\* resolved to: a request for its path is answered, and its match logged,
\* from the earliest rule with that path.
C14_ShadowedNeverAnswers ==
    pc \in {"loaded", "serving", "exited"} =>
        /\ Len(cm.Rules) = Len(DocumentRules(fs))
        /\ \A j \in 1..Len(cm.Rules) :
              Shadowed(DocumentRules(fs), j) =>
                  /\ cm.Rules[j] = DocumentRules(fs)[j]
                  /\ Shadowed(cm.Rules, j)
                  /\ (Universal /\ req[1].path = cm.Rules[j].Path) =>
                        \E i \in 1..(j - 1) :
                            /\ cm.Rules[i].Path = req[1].path
                            /\ ~Shadowed(cm.Rules, i)
                            /\ sent = << AnswerOf(cm.Rules[i]) >>
                            /\ events[2] = [type |-> "match", path |-> cm.Rules[i].Path,
                                            code |-> cm.Rules[i].Code]

\* two rules for /a, the first without code, the second with code 404: /a
\* is answered 200
C14_Witness ==
    /\ Universal
    /\ Len(cm.Rules) = 2
    /\ cm.Rules[1].Path = PathA
    /\ cm.Rules[2].Path = PathA
    /\ cm.Rules[1].Code = 0
    /\ cm.Rules[2].Code = 404
    /\ req[1].path = PathA
    /\ sent[1].status = 200

----------------------------------------------------------------------------
(* Method and query (SpecHistory) *)

\* an earlier request had the path of the request handled last
SamePathSeen == Handled /\ seen # <<>> /\ seen[1].req.path = req[1].path

\* C15 as stated: two requests with the same path, against the same rule
\* set, get the same status and body whatever their methods and queries.
C15_Original ==
    SamePathSeen => seen[1].sent = sent[1]

\* C15, amended: two requests with the same path that both reach the
\* universal handler (every request but GET /health does) get the same
\* status and body whatever their methods and queries.
C15_MethodAndQueryIgnored ==
    (SamePathSeen /\ seen[1].req.route = "universal" /\ req[1].route = "universal") =>
        seen[1].sent = sent[1]

\* GET /a without query and POST /a?tags=tag1&tags=tag2 were both answered
\* from the rule for /a
C15_Witness ==
    /\ SamePathSeen
    /\ seen[1].req.method = "GET"
    /\ seen[1].req.query = <<>>
    /\ req[1].method = "POST"
    /\ req[1].query # <<>>
    /\ req[1].path = PathA
    /\ sent[1].status = 404
    /\ seen[1].sent = sent[1]

----------------------------------------------------------------------------
(* Query parameters (Spec) *)

\* the parameters of the request event written for the request handled last
LoggedParams == events[1].params

\* C16: the request event carries each key of the query string exactly once,
\* with the value the key has first in source order; the later values of a
\* repeated key are dropped.
C16_FirstValueWins ==
    Universal =>
        LET query == req[1].query
        IN  /\ events[1].type = "request"
            /\ \A i \in 1..Len(query) :
                  \E pair \in LoggedParams : pair[1] = query[i][1]
            /\ \A pair \in LoggedParams :
                  \E i \in 1..Len(query) :
                      /\ query[i] = pair
                      /\ \A j \in 1..(i - 1) : query[j][1] # pair[1]
            /\ \A p1, p2 \in LoggedParams : p1[1] = p2[1] => p1 = p2

\* ?tags=tag1&page=1&tags=tag2&tags=tag3 is logged as tags=tag1, page=1
C16_Witness ==
    /\ Universal
    /\ Len(req[1].query) = 4
    /\ req[1].query[4] = <<"tags", "tag3">>
    /\ LoggedParams = {<<"tags", "tag1">>, <<"page", "1">>}

----------------------------------------------------------------------------
(* LoadConfig next to GetConfig (SpecReload) *)

\* the rule set of the start-up load and, once a later LoadConfig has decoded
\* its file, the rule set of that file
CompleteRuleSets ==
    {heap[1]} \cup (IF loader.pc \in {"store", "done"} THEN {heap[2]} ELSE {})

----------------------------------------------------------------------------
(* Requests next to each other (SpecReload) *)

\* C18: as long as no LoadConfig runs after the start-up load, however the
\* steps of the concurrent HandleRequest executions interleave, each request
\* is answered with the (status, body) it gets when it runs alone, no
\* execution faults, and the stored rule set stays what was loaded.
C18_ConcurrentRequestsAgree ==
    loader.pc = "idle" =>
        /\ store = [ptr |-> 1, len |-> Len(DocumentRules(fs))]
        /\ heap[1] = DocumentRules(fs)
        /\ \A h \in Handlers :
              /\ handlers[h].pc # "faulted"
              /\ handlers[h].pc \in {"resolved", "done"} =>
                    handlers[h].resp =
                        HandleResult(handlers[h].method, handlers[h].path,
                                     handlers[h].query, [Rules |-> DocumentRules(fs)]).sent

\* two requests in flight at once, between GetConfig and c.JSON, with
\* different answers
C18_Witness ==
    /\ loader.pc = "idle"
    /\ handlers[1].pc = "resolved"
    /\ handlers[2].pc = "resolved"
    /\ handlers[1].path = PathA
    /\ handlers[2].path = PathB
    /\ handlers[1].resp # handlers[2].resp
    /\ handlers[2].resp[1].status = 404

----------------------------------------------------------------------------
(* A request and a later LoadConfig (SpecReload) *)

\* what a rule list prescribes for a path: the answer of its first rule with
\* that path and the match logged for it, or the default
AnswerFrom(rules, path) ==
    LET hits == Hits(path, rules)
    IN  IF hits = {}
        THEN [resp  |-> [status |-> 200, body |-> [isNil |-> FALSE, kv |-> {}]],
              event |-> [type |-> "default"]]
        ELSE LET first == CHOOSE i \in hits : \A j \in hits : i <= j
             IN  [resp  |-> AnswerOf(rules[first]),
                  event |-> [type |-> "match", path |-> rules[first].Path,
                             code |-> rules[first].Code]]

\* C19: a request is resolved against the rule set its GetConfig call
\* returned, whatever LoadConfig does afterwards: the rule matched and logged
\* and the status and body sent are those that rule set prescribes, also
\* when a LoadConfig has completed between the GetConfig call and the send.
C19_ResolvesAgainstSnapshot ==
    \A h \in Handlers :
        handlers[h].pc \in {"resolved", "done"} =>
            /\ handlers[h].resp = << AnswerFrom(handlers[h].view, handlers[h].path).resp >>
            /\ handlers[h].trace[2] = AnswerFrom(handlers[h].view, handlers[h].path).event
            /\ handlers[h].pc = "done" =>
                  /\ handlers[h].trace[4].status = handlers[h].resp[1].status
                  /\ handlers[h].trace[4].body = handlers[h].resp[1].body

\* a request read the header of the old rule set, LoadConfig then stored a
\* rule set that prescribes another answer and returned, and only then the
\* request was resolved and answered, from the old rule set
C19_Witness ==
    \E h \in Handlers :
        /\ handlers[h].pc = "done"
        /\ handlers[h].reloaded
        /\ loader.pc = "done"
        /\ handlers[h].ptr = 1
        /\ handlers[h].view = heap[1]
        /\ store.ptr = 2
        /\ AnswerFrom(heap[2], handlers[h].path).resp # AnswerFrom(heap[1], handlers[h].path).resp
        /\ handlers[h].resp = << AnswerFrom(heap[1], handlers[h].path).resp >>

----------------------------------------------------------------------------
(* The events of one request (SpecReload).  The trace of a HandleRequest
   execution holds the log entries it has written and, last, what it has
   handed to c.JSON. *)

\* the types of the entries of a trace, in order
TraceTypes(trace) == [i \in 1..Len(trace) |-> trace[i].type]

\* C20: a request writes exactly one request event with its method, its path
\* and its flattened parameters, then exactly one match event or one default
\* event, then exactly one response event with the final status and body,
\* and only then hands that status and body to the transport; at every
\* moment what it has done so far is a beginning of this sequence.
C20_EventOrder ==
    \A h \in Handlers :
        LET t  == handlers[h].trace
            hr == handlers[h]
        IN  /\ \E second \in {"match", "default"} :
                  IsPrefix(TraceTypes(t), <<"request", second, "response", "sent">>)
            /\ Len(t) = CASE hr.pc = "idle" -> 0
                           [] hr.pc \in {"got", "faulted"} -> 1
                           [] hr.pc = "resolved" -> 3
                           [] hr.pc = "done" -> 4
            /\ Len(t) >= 1 =>
                  t[1] = [type |-> "request", method |-> hr.method, path |-> hr.path,
                          params |-> FlattenQuery(hr.query)]
            /\ Len(t) >= 3 =>
                  t[3] = [type |-> "response", status_code |-> hr.resp[1].status,
                          body |-> hr.resp[1].body]
            /\ Len(t) = 4 =>
                  t[4] = [type |-> "sent", status |-> t[3].status_code, body |-> t[3].body]

\* a request answered from a rule: request, match, response, then the send
C20_Witness ==
    \E h \in Handlers :
        /\ handlers[h].pc = "done"
        /\ TraceTypes(handlers[h].trace) = <<"request", "match", "response", "sent">>
        /\ handlers[h].trace[1].params = {<<"tags", "tag1">>}
        /\ handlers[h].trace[4].status = 404

----------------------------------------------------------------------------
(* Match event or default event (Spec) *)

\* the positions of the entries of a type among the entries written for the
\* request handled last
EventsOf(type) == {i \in 1..Len(events) : events[i].type = type}

\* C21: for every request of the universal handler, a match event is
\* written and the response is the matched rule's exactly when some rule
\* has the request path; a default event is written and the response is the
\* default one exactly when none has; never both events, never neither.
C21_MatchXorDefault ==
    Universal =>
        /\ Cardinality(EventsOf("match") \cup EventsOf("default")) = 1
        /\ IF Hits(req[1].path, cm.Rules) # {}
           THEN /\ EventsOf("match") = {2}
                /\ sent = << AnswerFrom(cm.Rules, req[1].path).resp >>
                /\ events[3].status_code = AnswerFrom(cm.Rules, req[1].path).resp.status
           ELSE /\ EventsOf("default") = {2}
                /\ sent = << [status |-> 200, body |-> [isNil |-> FALSE, kv |-> {}]] >>
                /\ events[3].status_code = 200

\* a matched request: a match event, no default event, the rule's answer
C21_Witness ==
    /\ Universal
    /\ EventsOf("match") = {2}
    /\ EventsOf("default") = {}
    /\ sent[1].status = 404
    /\ sent[1].body = SomeMap

----------------------------------------------------------------------------
(* A log entry that cannot be serialized (SpecLogger) *)

\* C22: a log call whose entry cannot be serialized writes one log_error
\* entry in place of the entry and returns; a request whose response event
\* cannot be serialized is resolved all the same: its three log calls are
\* made, and the status and body handed to the transport are those the
\* rules prescribe, as when the entry can be written.
C22_LogFailureIsHarmless ==
    /\ IsCall("LogResponse") =>
          call[1].written =
              IF call[1].body = ChanMap
              THEN << [type |-> "log_error"] >>
              ELSE << [type |-> "response", status_code |-> call[1].statusCode,
                       body |-> call[1].body] >>
    /\ IsCall("LogRequest") =>
          (Len(call[1].written) = 1 /\ call[1].written[1].type = "request")
    /\ IsCall("LogMatch") =>
          (Len(call[1].written) = 1 /\ call[1].written[1].type = "match")
    /\ IsCall("LogDefault") =>
          (Len(call[1].written) = 1 /\ call[1].written[1].type = "default")
    /\ IsCall("HandleRequest") =>
          LET answer == AnswerFrom(cm.Rules, call[1].path)
          IN  /\ call[1].ret.sent = << answer.resp >>
              /\ Len(call[1].ret.events) = 3
              /\ call[1].ret.events[2] = answer.event
              /\ call[1].ret.events[3] =
                    IF answer.resp.body = ChanMap
                    THEN [type |-> "log_error"]
                    ELSE [type |-> "response", status_code |-> answer.resp.status,
                          body |-> answer.resp.body]

\* a request matched by a rule whose Response holds a channel: log_error is
\* written for the response event, and 404 with that Response is sent
C22_Witness ==
    /\ IsCall("HandleRequest")
    /\ call[1].ret.events[2].type = "match"
    /\ call[1].ret.events[3] = [type |-> "log_error"]
    /\ call[1].ret.sent = << [status |-> 404, body |-> ChanMap] >>

----------------------------------------------------------------------------
(* Every request is answered (SpecRequests) *)

\* the entries of a trace that hand a response to the transport
Sends(trace) == {i \in 1..Len(trace) : trace[i].type = "sent"}

\* C23: every request that has entered HandleRequest completes, whatever
\* its path and the loaded rule set; it hands exactly one response to the
\* transport, none before it completes, and that response is the answer of
\* the first rule with its path or, when there is none, the default.
C23_EveryRequestAnswered ==
    /\ [](\A h \in Handlers :
            /\ handlers[h].pc # "faulted"
            /\ Cardinality(Sends(handlers[h].trace)) =
                  IF handlers[h].pc = "done" THEN 1 ELSE 0
            /\ handlers[h].pc = "done" =>
                  /\ handlers[h].trace[4].status =
                        AnswerFrom(DocumentRules(fs), handlers[h].path).resp.status
                  /\ handlers[h].trace[4].body =
                        AnswerFrom(DocumentRules(fs), handlers[h].path).resp.body)
    /\ \A h \in Handlers :
          (handlers[h].pc = "got") ~> (handlers[h].pc = "done")

\* a request for a path no rule has, against the empty rule set, answered
\* with the default
C23_Witness ==
    \E h \in Handlers :
        /\ handlers[h].pc = "done"
        /\ DocumentRules(fs) = <<>>
        /\ handlers[h].trace[4] = [type |-> "sent", status |-> 200, body |-> EmptyMap]

----------------------------------------------------------------------------
(* The rule with the empty path (Spec) *)

\* the rules of a list whose path is not empty, in order
RECURSIVE WithoutEmptyPaths(_)
WithoutEmptyPaths(rules) ==
    IF rules = <<>> THEN <<>>
    ELSE IF Head(rules).Path = <<>>
         THEN WithoutEmptyPaths(Tail(rules))
         ELSE <<Head(rules)>> \o WithoutEmptyPaths(Tail(rules))

\* C24: a document with an element whose "path" is "" loads; the rule is
\* stored at its position with the empty path; it is the match for the empty
\* request path only, and every request, its path starting with "/", is
\* answered and logged as if the rules with the empty path were not there.
C24_EmptyPathRuleIsInert ==
    (pc # "start" /\ fs.readable /\ fs.valid /\ fs.top.rules.t = "array") =>
        \A i \in 1..Len(LoadedElems) :
            (LoadedElems[i].t = "object" /\ LoadedElems[i].path = JString(<<>>)) =>
                /\ loadErr # "nil" =>
                      \E j \in 1..Len(LoadedElems) : LoadedElems[j].path.t = "number"
                /\ loadErr = "nil" =>
                      /\ Len(cm.Rules) = Len(LoadedElems)
                      /\ cm.Rules[i].Path = <<>>
                      /\ FindMatch(<<>>, cm.Rules).found
                      /\ cm.Rules[FindMatch(<<>>, cm.Rules).rule].Path = <<>>
                      /\ Universal =>
                            /\ Head(req[1].path) = "/"
                            /\ sent = << AnswerFrom(WithoutEmptyPaths(cm.Rules), req[1].path).resp >>
                            /\ events[2] = AnswerFrom(WithoutEmptyPaths(cm.Rules), req[1].path).event

\* a rule with the empty path stands before a rule for /a without code: /a
\* is answered from the second rule
C24_Witness ==
    /\ Universal
    /\ Len(cm.Rules) = 2
    /\ LoadedElems[1].path = JString(<<>>)
    /\ cm.Rules[1].Path = <<>>
    /\ cm.Rules[1].Code = 404
    /\ cm.Rules[2].Path = PathA
    /\ cm.Rules[2].Code = 0
    /\ req[1].path = PathA
    /\ events[2] = [type |-> "match", path |-> PathA, code |-> 0]
    /\ sent[1].status = 200

----------------------------------------------------------------------------
(* Shutdown (SpecShutdown) *)

\* C25: once SIGINT or SIGTERM has been received, the process eventually
\* exits; and a process that is serving stops serving only because such a
\* signal has been received.
C25_SignalLeadsToExit ==
    /\ (pc = "signalled") ~> (pc = "exited")
    /\ [][ (pc = "serving" /\ pc' # "serving") => (SignalNotify /\ pc' = "signalled") ]_vars
    /\ [][ pc' = "exited" => pc = "signalled" ]_vars

\* the process has served a request, then received a signal and exited
C25_Witness ==
    /\ pc = "exited"
    /\ Universal
    /\ Len(sent) = 1

----------------------------------------------------------------------------
(* The request path leaves the rules alone (SpecHandler) *)

\* C26: a step that is not a LoadConfig call, that is a GetConfig call or a
\* request with its FindMatch, Build*Response and Log* calls, leaves the
\* stored rule sequence as it is; so GetConfig returns the stored sequence,
\* and after a successful load followed by any requests that is the
\* sequence of the loaded document.
C26_RequestsLeaveRules ==
    /\ [][ ~LoadConfigCall => cm' = cm ]_vars
    /\ [](IsCall("GetConfig") => call[1].ret = cm.Rules)
    /\ [](loadErr = "nil" => cm.Rules = DocumentRules(fs))

\* a request has been answered from the second of two loaded rules, and the
\* rules are those of the document, in its order
C26_Witness ==
    /\ IsCall("HandleRequest")
    /\ loadErr = "nil"
    /\ Len(cm.Rules) = 2
    /\ cm.Rules[1].Path = PathB
    /\ cm.Rules[2].Path = PathA
    /\ call[1].path = PathA
    /\ call[1].ret.sent[1].status = 404
    /\ cm.Rules = DocumentRules(fs)

----------------------------------------------------------------------------
(* Resolution does not depend on the past (SpecHistory) *)

\* C27: for the loaded rule set, the status and body HandleRequest resolves
\* for a path are those the rule set prescribes for it, the same as for an
\* earlier request with that path, however many requests, for this path or
\* for others, were handled in between.
C27_HistoryFree ==
    Universal =>
        /\ sent = << AnswerFrom(DocumentRules(fs), req[1].path).resp >>
        /\ (seen # <<>> /\ seen[1].req.route = "universal") =>
              /\ seen[1].sent = AnswerFrom(DocumentRules(fs), seen[1].req.path).resp
              /\ seen[1].req.path = req[1].path => seen[1].sent = sent[1]

\* /a was requested, two other requests were handled, and /a requested
\* again with the same answer from its rule
C27_Witness ==
    /\ Universal
    /\ seen # <<>>
    /\ seen[1].gap = 2
    /\ seen[1].req.route = "universal"
    /\ seen[1].req.path = PathA
    /\ req[1].path = PathA
    /\ sent[1].status = 404
    /\ seen[1].sent = sent[1]

----------------------------------------------------------------------------
(* The health endpoint (SpecHistory) *)

\* C28: GET /health is answered by the health endpoint, with status 200 and
\* {"status":"healthy","service":"mock-service"} and without a log entry of
\* the universal handler, whatever rules are loaded, a rule for /health
\* included; no other request is; a request for /health with another method
\* reaches the universal handler and is answered from the rules.
C28_HealthRoute ==
    Handled =>
        /\ (req[1].method = "GET" /\ req[1].path = PathHealth) <=> req[1].route = "health"
        /\ req[1].route = "health" =>
              /\ sent = << [status |-> 200,
                            body |-> [isNil |-> FALSE,
                                      kv |-> {<<"status", "healthy">>,
                                              <<"service", "mock-service">>}]] >>
              /\ events = <<>>
        /\ req[1].route # "health" =>
              /\ req[1].route = "universal"
              /\ sent = << AnswerFrom(DocumentRules(fs), req[1].path).resp >>

\* with a rule for /health loaded, GET /health got the health answer and
\* POST /health then got the rule's 404
C28_Witness ==
    /\ Handled
    /\ \E i \in 1..Len(cm.Rules) : cm.Rules[i].Path = PathHealth
    /\ seen # <<>>
    /\ seen[1].req.method = "GET"
    /\ seen[1].req.path = PathHealth
    /\ seen[1].sent.status = 200
    /\ seen[1].sent.body = HealthBody
    /\ req[1].method = "POST"
    /\ req[1].path = PathHealth
    /\ sent = << [status |-> 404, body |-> SomeMap] >>

----------------------------------------------------------------------------
(* The code of the match event (Spec) *)

\* the rule of the loaded document a request for this path is answered from
MatchedRule(file, path) ==
    DocumentRules(file)[CHOOSE i \in Hits(path, DocumentRules(file)) :
                            \A j \in Hits(path, DocumentRules(file)) : i <= j]

\* C29: the match event of a matched request carries the path of the matched
\* rule and its code as the document gives it, 0 when the document gives
\* none; the response event and the transport get 200 when that code is 0
\* and the code itself otherwise.
C29_MatchEventCode ==
    (Universal /\ Hits(req[1].path, DocumentRules(fs)) # {}) =>
        LET rule == MatchedRule(fs, req[1].path)
        IN  /\ events[2] = [type |-> "match", path |-> rule.Path, code |-> rule.Code]
            /\ events[3].status_code = sent[1].status
            /\ rule.Code = 0 => (events[2].code = 0 /\ sent[1].status = 200)
            /\ rule.Code # 0 => (events[2].code = sent[1].status /\ sent[1].status = rule.Code)

\* a rule without "code" is matched: the match event says 0, the response
\* event and the transport 200
C29_Witness ==
    /\ Universal
    /\ events[2] = [type |-> "match", path |-> PathA, code |-> 0]
    /\ events[3].status_code = 200
    /\ sent[1].status = 200
    /\ LoadedElems[1].code = JAbsent
    /\ LoadedElems[1].path = JString(PathA)

----------------------------------------------------------------------------
(* The identity of the bodies (SpecBodies) *)

\* addresses of the maps of the stored rules
RuleBodies == {cm.Rules[i].Response : i \in 1..Len(cm.Rules)} \ {0}

\* C30: a BuildDefaultResponse call returns the address of a new object,
\* which is empty, and leaves every object as it was; BuildResponse returns
\* the address held in the rule; the map of a rule changes only by a write
\* through a body BuildResponse returned, and a write changes one object.
C30_DefaultBodyIsFresh ==
    /\ [][(call' # call /\ call'[1].op = "BuildDefaultResponse") =>
            /\ call'[1].ret.body \notin 1..Len(heap)
            /\ call'[1].ret.body \notin RuleBodies
            /\ heap'[call'[1].ret.body] = EmptyMap
            /\ \A a \in 1..Len(heap) : heap'[a] = heap[a]]_vars
    /\ [][(call' # call /\ call'[1].op = "BuildResponse") =>
            /\ call'[1].ret.body = cm.Rules[call'[1].rule].Response
            /\ heap' = heap]_vars
    /\ [][\A a \in 1..Len(heap) :
            heap'[a] # heap[a] =>
                /\ call'[1].op = "write" /\ call'[1].addr = a
                /\ a \in RuleBodies => call[1].op = "BuildResponse"
                /\ a \notin RuleBodies => call[1].op = "BuildDefaultResponse"]_vars
    /\ [](IsCall("BuildDefaultResponse") => heap[call[1].ret.body] = EmptyMap)
    /\ [](cm.Rules = RulesInMemory(DocumentRules(fs)))

\* a default body was written to, the default body of a later call is
\* another object and empty, and the map of a rule was changed through the
\* body BuildResponse returned
C30_Witness ==
    /\ IsCall("BuildDefaultResponse")
    /\ call[1].after = "write"
    /\ heap[call[1].ret.body] = EmptyMap
    /\ \E a \in 1..Len(heap) \ RuleBodies :
          a # call[1].ret.body /\ heap[a].kv = {<<"x", "y">>}
    /\ \E i \in 1..Len(cm.Rules) :
          /\ cm.Rules[i].Response # 0
          /\ heap[cm.Rules[i].Response] # DocumentRules(fs)[i].Response

====
